---- MODULE Spec2Model ----
(***************************************************************************)
(* Gaussian elimination of an augmented matrix: the sequential engine      *)
(* (gaussian_sequential) and the fork/pipe/shared-memory engine            *)
(* (gaussian_parallel with detail::worker_loop).                           *)
(*                                                                         *)
(* Matrix entries are exact rationals <<num, den>> (den > 0, lowest        *)
(* terms); den = 0 stands for the non-finite doubles (<<1,0>> = +inf,      *)
(* <<-1,0>> = -inf, <<0,0>> = NaN).  Rounding is not modelled.             *)
(***************************************************************************)
EXTENDS Integers, Sequences, FiniteSets, TLC

\* ------------------------------------------------------------------ bounds
MaxN == 3          \* largest number of rows of an input matrix
MaxProcesses == 3  \* largest max_processes argument
MaxFaults == 1     \* environment faults (kill, failed syscall) per run
MaxPartN == 7      \* largest number of rows when only the partition is run

\* --------------------------------------------------------------- arithmetic
Abs(x) == IF x < 0 THEN -x ELSE x

Sign(x) == IF x < 0 THEN -1 ELSE IF x > 0 THEN 1 ELSE 0

Min(a, b) == IF a < b THEN a ELSE b

Max(a, b) == IF a > b THEN a ELSE b

\* Euclid's algorithm, on a pair of naturals
GCDOf[p \in Nat \X Nat] == IF p[2] = 0 THEN p[1] ELSE GCDOf[<<p[2], p[1] % p[2]>>]

GCD(a, b) == GCDOf[<<a, b>>]

\* the fraction p[1]/p[2] in lowest terms with a positive denominator
NormOf[p \in Int \X Int] ==
    IF p[2] = 0 THEN <<Sign(p[1]), 0>>
    ELSE IF p[1] = 0 THEN <<0, 1>>
    ELSE <<(Sign(p[2]) * p[1]) \div GCD(Abs(p[1]), Abs(p[2])),
           Abs(p[2]) \div GCD(Abs(p[1]), Abs(p[2]))>>

\* a double value: the rational n/d in lowest terms, or a non-finite value
Norm(n, d) == NormOf[<<n, d>>]

Num(x) == x[1]

Den(x) == x[2]

Dbl(i) == <<i, 1>>

Mul(a, b) == Norm(Num(a) * Num(b), Den(a) * Den(b))

Div(a, b) == Norm(Num(a) * Den(b), Den(a) * Num(b))

Sub(a, b) == Norm(Num(a) * Den(b) - Num(b) * Den(a), Den(a) * Den(b))

\* constexpr double kEpsilon = 1e-12, as the exponent of 1/10^12
kEpsilonExp == 12

RECURSIVE DivPow10(_, _)
DivPow10(x, e) == IF e = 0 THEN x ELSE DivPow10(x \div 10, e - 1)

\* std::fabs(pivot) < kEpsilon: |n|/d < 10^-12 iff |n| <= floor((d-1)/10^12);
\* false for inf and NaN
FabsBelowEpsilon(pivot) ==
    /\ Den(pivot) > 0
    /\ Abs(Num(pivot)) <= DivPow10(Den(pivot) - 1, kEpsilonExp)

\* ------------------------------------------------------------------ matrix
\* CppMatrix: rows, cols and the row-major data; data[r * cols + c] is
\* element (r, c), the sequence being 1-based here
CppMatrix(rows, cols, data) == [rows |-> rows, cols |-> cols, data |-> data]

At(data, width, r, c) == data[r * width + c + 1]

\* an elimination whose writes land one row above the row it was given
ReduceRowAbove(data, width, column, row, pivot) ==
    LET factor == Div(At(data, width, row, column), pivot)
    IN  [i \in 1..Len(data) |->
            IF /\ (i - 1) \div width = row - 1
               /\ (i - 1) % width >= column
            THEN Sub(data[i], Mul(factor, At(data, width, column, (i - 1) % width)))
            ELSE data[i]]

\* worker_loop, lines 264-268: row[k] -= factor * pivot_row[k] for k in
\* column..width-1, with factor = row[column] / pivot
ReduceRow(data, width, column, row, pivot) ==
    LET factor == Div(At(data, width, row, column), pivot)
    IN  [i \in 1..Len(data) |->
            IF /\ (i - 1) \div width = row
               /\ (i - 1) % width >= column
            THEN Sub(data[i], Mul(factor, At(data, width, column, (i - 1) % width)))
            ELSE data[i]]

\* back substitution, i from n-1 down to 0; solution is 1-based here
RECURSIVE RhsMinus(_, _, _, _, _, _)
RhsMinus(data, width, n, i, j, solution) ==
    IF j >= n THEN At(data, width, i, width - 1)
    ELSE Sub(RhsMinus(data, width, n, i, j + 1, solution),
             Mul(At(data, width, i, j), solution[j + 1]))

\* the double loop computes rhs left to right; subtraction of exact
\* rationals is order-independent, so the recursion may run right to left
RECURSIVE BackSubstitute(_, _, _, _, _)
BackSubstitute(data, width, n, i, solution) ==
    IF i < 0 THEN [status |-> "ok", solution |-> solution]
    ELSE LET rhs   == RhsMinus(data, width, n, i, i + 1, solution)
             pivot == At(data, width, i, i)
         IN  IF FabsBelowEpsilon(pivot)
             THEN [status |-> "SingularMatrix", solution |-> <<>>]
             ELSE BackSubstitute(data, width, n, i - 1,
                                 [solution EXCEPT ![i + 1] = Div(rhs, pivot)])

ZeroVector(n) == [i \in 1..n |-> Dbl(0)]

\* a validation that forgets the empty matrix
validate_augmented_cols_only(augmented) ==
    augmented.cols # augmented.rows + 1

\* detail::validate_augmented: TRUE when it throws std::invalid_argument
validate_augmented(augmented) ==
    \/ augmented.rows = 0
    \/ augmented.cols # augmented.rows + 1

\* --------------------------------------------------------- sequential engine
\* lines 304-307: at(row, k) -= factor * at(col, k) for k in col..width-1
SeqReduceRow(data, width, col, row, pivot) ==
    LET factor == Div(At(data, width, row, col), pivot)
    IN  [i \in 1..Len(data) |->
            IF /\ (i - 1) \div width = row
               /\ (i - 1) % width >= col
            THEN Sub(data[i], Mul(factor, At(data, width, col, (i - 1) % width)))
            ELSE data[i]]

\* lines 303-308: the rows below the pivot row
RECURSIVE SeqRows(_, _, _, _, _, _)
SeqRows(data, width, n, col, row, pivot) ==
    IF row >= n THEN data
    ELSE SeqRows(SeqReduceRow(data, width, col, row, pivot), width, n, col,
                 row + 1, pivot)

\* lines 297-309: forward elimination
RECURSIVE SeqForward(_, _, _, _)
SeqForward(data, width, n, col) ==
    LET pivot == At(data, width, col, col)
    IN  IF col >= n THEN [status |-> "ok", data |-> data]
        ELSE IF FabsBelowEpsilon(pivot)
             THEN [status |-> "SingularMatrix", data |-> data]
             ELSE SeqForward(SeqRows(data, width, n, col, col + 1, pivot),
                             width, n, col + 1)

gaussian_sequential(augmented) ==
    IF validate_augmented(augmented)
    THEN [status |-> "InvalidShape", solution |-> <<>>]
    ELSE LET n     == augmented.rows
             width == augmented.cols
             fwd   == SeqForward(augmented.data, width, n, 0)
         IN  IF fwd.status # "ok"
             THEN [status |-> fwd.status, solution |-> <<>>]
             ELSE BackSubstitute(fwd.data, width, n, n - 1, ZeroVector(n))

\* ------------------------------------------------------------------ inputs
\* the families of input matrices the runs start from
Kinds == {"dominant", "zero_first", "ones", "dependent_last", "mixed"}

ScenarioA == << 2,  1, -1,   8,
               -3, -1,  2, -11,
               -2,  1,  2,  -3>>

ScenarioB == <<5, 10>>

Entry(kind, rows, cols, r, c) ==
    LET dom == IF c = cols - 1 THEN r + 1
               ELSE IF r = c THEN rows + 1 ELSE 1
    IN  CASE kind = "dominant"   -> dom
          [] kind = "zero_first" -> IF r = 0 /\ c = 0 THEN 0 ELSE dom
          [] kind = "ones"       -> IF c = cols - 1 THEN r + 1 ELSE 1
          [] kind = "dependent_last" ->
                 IF r = rows - 1 /\ rows > 1
                 THEN (IF c = cols - 1 THEN 1 ELSE IF c = 0 THEN rows + 1 ELSE 1)
                 ELSE dom
          [] OTHER ->
                 IF rows = 3 /\ cols = 4 THEN ScenarioA[r * cols + c + 1]
                 ELSE IF rows = 1 /\ cols = 2 THEN ScenarioB[c + 1]
                 ELSE IF r = c THEN 2 ELSE IF c > r THEN -1 ELSE 3

MakeMatrix(kind, rows, cols) ==
    CppMatrix(rows, cols,
              [i \in 1..(rows * cols) |->
                  Dbl(Entry(kind, rows, cols, (i - 1) \div cols, (i - 1) % cols))])

Shapes == {<<r, c>> \in (0..MaxN) \X (0..(MaxN + 2)) : c \in {r, r + 1, r + 2}}

Inputs ==
    {MakeMatrix(k, s[1], s[2]) : k \in Kinds, s \in {t \in Shapes : t[2] = t[1] + 1}}
    \cup {MakeMatrix("dominant", s[1], s[2]) : s \in {t \in Shapes : t[2] # t[1] + 1}}

\* ------------------------------------------------------------------- state
VARIABLES
    augmented,       \* the caller's CppMatrix
    max_processes,   \* the caller's max_processes argument
    cpu_available,   \* what sysconf(_SC_NPROCESSORS_ONLN) reports on this machine
    pc,              \* where the orchestrator (gaussian_parallel) stands
    region,          \* the orchestrator's mapping: mapped, mmaps, munmaps
    shared_data,     \* the contents of the shared region
    process_budget,
    workers,         \* std::vector<WorkerProcess>: pid, write_fd, read_fd
    proc,            \* the worker processes: state, task, row, pivot, exit, reaped
    task_chan,       \* to_child pipes: unread WorkerTasks per worker
    ack_chan,        \* to_parent pipes: unread WorkerAcks per worker
    col, assigned, idx,
    result,          \* what gaussian_parallel returned or threw
    seq_result,      \* what gaussian_sequential returned or threw
    history,         \* what was sent so far: exit_sent, work_cols, unacked, round, exits, reduced
    faults           \* environment faults so far

vars == <<augmented, max_processes, cpu_available, pc, region, shared_data,
          process_budget, workers, proc, task_chan, ack_chan, col, assigned,
          idx, result, seq_result, history, faults>>

\* enum class WorkerCommand : std::size_t { Work = 1, Exit = 2 }
Work == 1

\* an Exit command that workers cannot tell from Work
ExitSameAsWork == Work

Exit == 2

WorkerTask(command, column, start_row, end_row) ==
    [command |-> command, column |-> column,
     start_row |-> start_row, end_row |-> end_row]

WorkerAck(status) == [status |-> status]

NoTask == WorkerTask(0, 0, 0, 0)

NoResult == [status |-> "none", solution |-> <<>>]

\* sysconf may report any count, or fail with -1
CpuValues == {-1, 0, 1, MaxN + 1}

Init ==
    /\ augmented \in Inputs
    /\ max_processes \in 0..MaxProcesses
    /\ cpu_available \in CpuValues
    /\ pc = "validate"
    /\ region = [mapped |-> FALSE, mmaps |-> 0, munmaps |-> 0]
    /\ shared_data = <<>>
    /\ process_budget = 0
    /\ workers = <<>>
    /\ proc = <<>>
    /\ task_chan = <<>>
    /\ ack_chan = <<>>
    /\ col = 0
    /\ assigned = 0
    /\ idx = 0
    /\ result = NoResult
    /\ seq_result = NoResult
    /\ history = [exit_sent |-> {}, work_cols |-> {}, unacked |-> <<>>,
                  round |-> <<>>, exits |-> <<>>,
                  reduced |-> [r \in 1..augmented.rows |-> <<>>]]
    /\ faults = 0

Spawned == 1..Len(workers)

Alive(k) == proc[k].exit = "none"

\* the processes that hold the write end of worker k's task pipe: the
\* orchestrator until it closes write_fd, and every worker forked after k,
\* which inherits the orchestrator's descriptors and never closes them
TaskWriters(k) ==
    (IF workers[k].write_fd = "open" THEN {0} ELSE {})
    \cup {j \in Spawned : j > k /\ Alive(j)}

\* the read end of worker k's task pipe is held by worker k alone
TaskReaders(k) == {j \in {k} : Alive(j)}

\* the processes that hold the read end of worker k's ack pipe: the
\* orchestrator until it closes read_fd, and every worker forked after k
AckReaders(k) ==
    (IF workers[k].read_fd = "open" THEN {0} ELSE {})
    \cup {j \in Spawned : j > k /\ Alive(j)}

\* an ack pipe whose write end the workers forked later would hold as well
AckWritersInherited(k) == {j \in Spawned : j >= k /\ Alive(j)}

\* the write end of worker k's ack pipe is held by worker k alone
AckWriters(k) == {j \in {k} : Alive(j)}

\* a guard whose destructor does not unmap
SharedMatrixGuardLeak(r) == r

\* ------------------------------------------------------------ orchestrator
\* ~SharedMatrixGuard: munmap of the region when the guard leaves scope
SharedMatrixGuard(r) ==
    IF r.mapped THEN [r EXCEPT !.mapped = FALSE, !.munmaps = @ + 1] ELSE r

\* an exception leaving gaussian_parallel after the guard was constructed
Throw(status) ==
    /\ pc' = "done"
    /\ result' = [status |-> status, solution |-> <<>>]
    /\ region' = SharedMatrixGuard(region)

\* the run of gaussian_sequential the caller compares against
CallSequential ==
    /\ seq_result.status = "none"
    /\ pc \in {"validate", "done"}
    /\ seq_result' = gaussian_sequential(augmented)
    /\ UNCHANGED <<augmented, max_processes, cpu_available, pc, region,
                   shared_data, process_budget, workers, proc, task_chan,
                   ack_chan, col, assigned, idx, result, history, faults>>

\* a parallel engine without the small-matrix fast path
FastPathNever(n) == FALSE

\* line 334: n < 2, the matrix goes to the sequential engine
FastPath(n) == n < 2

\* lines 331-336: validation, and the n < 2 fast path
Validate ==
    /\ pc = "validate"
    /\ IF validate_augmented(augmented)
       THEN /\ pc' = "done"
            /\ result' = [status |-> "InvalidShape", solution |-> <<>>]
       ELSE IF FastPath(augmented.rows)
            THEN /\ pc' = "done"
                 /\ result' = gaussian_sequential(augmented)
            ELSE /\ pc' = "mmap"
                 /\ UNCHANGED result
    /\ UNCHANGED <<augmented, max_processes, cpu_available, region,
                   shared_data, process_budget, workers, proc, task_chan,
                   ack_chan, col, assigned, idx, seq_result, history, faults>>

\* a budget that is not clamped to the rows below the first pivot
ProcessBudgetUnclamped(maxp, cpu, n) ==
    Max(1, IF maxp > 0 THEN maxp ELSE (IF cpu > 0 THEN cpu ELSE 1))

\* lines 360-364
ProcessBudget(maxp, cpu, n) ==
    Max(1, Min(IF maxp > 0 THEN maxp ELSE (IF cpu > 0 THEN cpu ELSE 1), n - 1))

\* lines 338-364: mmap, guard, copy of the input, worker budget
Mmap ==
    /\ pc = "mmap"
    /\ region' = [region EXCEPT !.mapped = TRUE, !.mmaps = @ + 1]
    /\ shared_data' = augmented.data
    /\ process_budget' = ProcessBudget(max_processes, cpu_available,
                                       augmented.rows)
    /\ pc' = "spawn"
    /\ UNCHANGED <<augmented, max_processes, cpu_available, workers, proc, task_chan,
                   ack_chan, col, assigned, idx, result, seq_result,
                   history, faults>>

\* lines 344-346: mmap returns MAP_FAILED; no guard exists yet
MmapFails ==
    /\ pc = "mmap"
    /\ faults < MaxFaults
    /\ faults' = faults + 1
    /\ pc' = "done"
    /\ result' = [status |-> "ResourceFailure", solution |-> <<>>]
    /\ UNCHANGED <<augmented, max_processes, cpu_available, region,
                   shared_data, process_budget, workers, proc, task_chan,
                   ack_chan, col, assigned, idx, seq_result, history>>

\* lines 381-414: one iteration of the spawn loop, pipes and fork succeeding
SpawnWorker ==
    /\ pc = "spawn"
    /\ Len(workers) < process_budget
    /\ workers' = Append(workers, [pid |-> Len(workers) + 1,
                                   write_fd |-> "open", read_fd |-> "open"])
    /\ proc' = Append(proc, [state |-> "Ready", task |-> NoTask, row |-> 0,
                             pivot |-> Dbl(0), exit |-> "none", reaped |-> FALSE])
    /\ task_chan' = Append(task_chan, <<>>)
    /\ ack_chan' = Append(ack_chan, <<>>)
    /\ history' = [history EXCEPT !.unacked = Append(@, <<>>),
                                  !.exits = Append(@, 0)]
    /\ UNCHANGED <<augmented, max_processes, cpu_available, pc, region,
                   shared_data, process_budget, col, assigned, idx, result,
                   seq_result, faults>>

\* lines 384-399: pipe() or fork() fails; the new descriptors are closed
\* and the exception leaves gaussian_parallel
SpawnFails ==
    /\ pc = "spawn"
    /\ Len(workers) < process_budget
    /\ faults < MaxFaults
    /\ faults' = faults + 1
    /\ Throw("ResourceFailure")
    /\ UNCHANGED <<augmented, max_processes, cpu_available, shared_data,
                   process_budget, workers, proc, task_chan, ack_chan, col,
                   assigned, idx, seq_result, history>>

\* line 412: the spawn loop ends
SpawnDone ==
    /\ pc = "spawn"
    /\ Len(workers) >= process_budget
    /\ pc' = "pivot"
    /\ col' = 0
    /\ UNCHANGED <<augmented, max_processes, cpu_available, region,
                   shared_data, process_budget, workers, proc, task_chan,
                   ack_chan, assigned, idx, result, seq_result, history,
                   faults>>

\* lines 446-460: the partition of the rows below the pivot row
RemainingRows(n, c) == n - c - 1

ActiveWorkers(budget, remaining) == Min(budget, remaining)

\* a chunk size rounded down instead of up
ChunkFloor(remaining, active) == Max(1, remaining \div active)

Chunk(remaining, active) == (remaining + active - 1) \div active

\* a range start that skips the first row below the pivot row
ChunkStartSkip(c, k, chunk) == c + 2 + k * chunk

\* a range start that takes in the pivot row
ChunkStartAtPivot(c, k, chunk) == c + k * chunk

ChunkStart(c, k, chunk) == c + 1 + k * chunk

\* a range end one row too far
ChunkEndOverlap(n, start, chunk) == Min(n, start + chunk + 1)

ChunkEnd(n, start, chunk) == Min(n, start + chunk)

RoundActive == ActiveWorkers(process_budget, RemainingRows(augmented.rows, col))

RoundChunk == Chunk(RemainingRows(augmented.rows, col), RoundActive)

\* a pivot check that leaves out the last column, which has no rows below it
PivotSingularSkipLast(data, width, c) ==
    /\ c < (Len(data) \div width) - 1
    /\ FabsBelowEpsilon(At(data, width, c, c))

\* lines 441-444: the pivot of column c is below kEpsilon
PivotSingular(data, width, c) == FabsBelowEpsilon(At(data, width, c, c))

\* line 440 and lines 441-452: the head of the column loop
Pivot ==
    /\ pc = "pivot"
    /\ IF col >= augmented.rows
       THEN /\ pc' = "exit_send"
            /\ idx' = 0
            /\ UNCHANGED <<col, assigned, result, region>>
       ELSE IF PivotSingular(shared_data, augmented.cols, col)
            THEN /\ Throw("SingularMatrix")
                 /\ UNCHANGED <<col, assigned, idx>>
            ELSE IF RemainingRows(augmented.rows, col) = 0
                 THEN /\ col' = col + 1
                      /\ UNCHANGED <<pc, assigned, idx, result, region>>
                 ELSE /\ pc' = "dispatch"
                      /\ assigned' = 0
                      /\ UNCHANGED <<col, idx, result, region>>
    /\ UNCHANGED <<augmented, max_processes, cpu_available, shared_data,
                   process_budget, workers, proc, task_chan, ack_chan,
                   seq_result, history, faults>>

\* lines 418-428: send_task writes one WorkerTask on the worker's task pipe;
\* the write fails (EPIPE) when no process holds the read end
SendTask(k, task) ==
    /\ TaskReaders(k) # {}
    /\ task_chan' = [task_chan EXCEPT ![k] = Append(@, task)]
    /\ history' = [history EXCEPT
                      !.unacked[k] = Append(@, task),
                      !.exit_sent = IF task.command = Exit THEN @ \cup {k} ELSE @,
                      !.exits[k] = IF task.command = Exit THEN @ + 1 ELSE @,
                      !.work_cols = IF task.command = Work
                                    THEN @ \cup {task.column} ELSE @,
                      !.round = IF task.command # Work THEN @
                                ELSE IF @ # <<>> /\ @[1].task.column = task.column
                                     THEN Append(@, [worker |-> k, task |-> task])
                                     ELSE <<[worker |-> k, task |-> task]>>]

SendTaskFails(k) == TaskReaders(k) = {}

\* line 455: the dispatch loop goes on
DispatchMore(k, active, start, n) == k < active /\ start < n

\* lines 455-462: one iteration of the dispatch loop
DispatchSend ==
    /\ pc = "dispatch"
    /\ LET start == ChunkStart(col, assigned, RoundChunk)
           end   == ChunkEnd(augmented.rows, start, RoundChunk)
       IN  /\ DispatchMore(assigned, RoundActive, start, augmented.rows)
           /\ SendTask(assigned + 1, WorkerTask(Work, col, start, end))
    /\ assigned' = assigned + 1
    /\ UNCHANGED <<augmented, max_processes, cpu_available, pc, region,
                   shared_data, process_budget, workers, proc, ack_chan, col,
                   idx, result, seq_result, faults>>

DispatchSendFails ==
    /\ pc = "dispatch"
    /\ DispatchMore(assigned, RoundActive,
                    ChunkStart(col, assigned, RoundChunk), augmented.rows)
    /\ SendTaskFails(assigned + 1)
    /\ Throw("WorkerFailure")
    /\ UNCHANGED <<augmented, max_processes, cpu_available, shared_data,
                   process_budget, workers, proc, task_chan, ack_chan, col,
                   assigned, idx, seq_result, history, faults>>

DispatchDone ==
    /\ pc = "dispatch"
    /\ ~DispatchMore(assigned, RoundActive,
                     ChunkStart(col, assigned, RoundChunk), augmented.rows)
    /\ pc' = "collect"
    /\ idx' = 0
    /\ UNCHANGED <<augmented, max_processes, cpu_available, region,
                   shared_data, process_budget, workers, proc, task_chan,
                   ack_chan, col, assigned, result, seq_result, history,
                   faults>>

\* lines 430-438: wait_ack reads one WorkerAck from the worker's ack pipe;
\* it blocks while the pipe is empty and a writer exists
WaitAck(k) ==
    /\ ack_chan[k] # <<>>
    /\ ack_chan' = [ack_chan EXCEPT ![k] = Tail(@)]
    /\ history' = [history EXCEPT !.unacked[k] = Tail(@)]

\* the read returns 0 (end of file): the pipe is empty and has no writer
WaitAckFails(k) == ack_chan[k] = <<>> /\ AckWriters(k) = {}

\* the ack loop stopping one Ack short
RoundCompleteEarly(i, sent) == i >= sent - 1

\* line 464: the ack loop of a round is over
RoundComplete(i, sent) == i >= sent

\* lines 464-466: one iteration of the ack loop
Collect ==
    /\ pc = "collect"
    /\ ~RoundComplete(idx, assigned)
    /\ WaitAck(idx + 1)
    /\ IF Head(ack_chan[idx + 1]).status # 0
       THEN /\ Throw("WorkerFailure")
            /\ UNCHANGED idx
       ELSE /\ idx' = idx + 1
            /\ UNCHANGED <<pc, result, region>>
    /\ UNCHANGED <<augmented, max_processes, cpu_available, shared_data,
                   process_budget, workers, proc, task_chan, col, assigned,
                   seq_result, faults>>

CollectFails ==
    /\ pc = "collect"
    /\ ~RoundComplete(idx, assigned)
    /\ WaitAckFails(idx + 1)
    /\ Throw("WorkerFailure")
    /\ UNCHANGED <<augmented, max_processes, cpu_available, shared_data,
                   process_budget, workers, proc, task_chan, ack_chan, col,
                   assigned, idx, seq_result, history, faults>>

\* line 467: the round is over, on to the next column
CollectDone ==
    /\ pc = "collect"
    /\ RoundComplete(idx, assigned)
    /\ col' = col + 1
    /\ pc' = "pivot"
    /\ UNCHANGED <<augmented, max_processes, cpu_available, region,
                   shared_data, process_budget, workers, proc, task_chan,
                   ack_chan, assigned, idx, result, seq_result, history,
                   faults>>

\* an Exit loop that leaves out the last spawned worker
ExitLoopSkipLast(i, spawned) == i < spawned - 1

\* line 469: the Exit loop goes on, over every spawned worker
ExitLoopMore(i, spawned) == i < spawned

\* lines 469-471: Exit to every spawned worker
ExitSend ==
    /\ pc = "exit_send"
    /\ ExitLoopMore(idx, Len(workers))
    /\ SendTask(idx + 1, WorkerTask(Exit, 0, 0, 0))
    /\ idx' = idx + 1
    /\ UNCHANGED <<augmented, max_processes, cpu_available, pc, region,
                   shared_data, process_budget, workers, proc, ack_chan, col,
                   assigned, result, seq_result, faults>>

ExitSendFails ==
    /\ pc = "exit_send"
    /\ ExitLoopMore(idx, Len(workers))
    /\ SendTaskFails(idx + 1)
    /\ Throw("WorkerFailure")
    /\ UNCHANGED <<augmented, max_processes, cpu_available, shared_data,
                   process_budget, workers, proc, task_chan, ack_chan, col,
                   assigned, idx, seq_result, history, faults>>

ExitSendDone ==
    /\ pc = "exit_send"
    /\ ~ExitLoopMore(idx, Len(workers))
    /\ pc' = "exit_wait"
    /\ idx' = 0
    /\ UNCHANGED <<augmented, max_processes, cpu_available, region,
                   shared_data, process_budget, workers, proc, task_chan,
                   ack_chan, col, assigned, result, seq_result, history,
                   faults>>

\* lines 473-475: one Ack from every spawned worker
ExitWait ==
    /\ pc = "exit_wait"
    /\ idx < Len(workers)
    /\ WaitAck(idx + 1)
    /\ IF Head(ack_chan[idx + 1]).status # 0
       THEN /\ Throw("WorkerFailure")
            /\ UNCHANGED idx
       ELSE /\ idx' = idx + 1
            /\ UNCHANGED <<pc, result, region>>
    /\ UNCHANGED <<augmented, max_processes, cpu_available, shared_data,
                   process_budget, workers, proc, task_chan, col, assigned,
                   seq_result, faults>>

ExitWaitFails ==
    /\ pc = "exit_wait"
    /\ idx < Len(workers)
    /\ WaitAckFails(idx + 1)
    /\ Throw("WorkerFailure")
    /\ UNCHANGED <<augmented, max_processes, cpu_available, shared_data,
                   process_budget, workers, proc, task_chan, ack_chan, col,
                   assigned, idx, seq_result, history, faults>>

ExitWaitDone ==
    /\ pc = "exit_wait"
    /\ idx >= Len(workers)
    /\ pc' = "reap"
    /\ idx' = 0
    /\ UNCHANGED <<augmented, max_processes, cpu_available, region,
                   shared_data, process_budget, workers, proc, task_chan,
                   ack_chan, col, assigned, result, seq_result, history,
                   faults>>

\* lines 477-489: waitpid blocks until the worker has terminated; a worker
\* that exited with status 0 has its two descriptors closed
Reap ==
    /\ pc = "reap"
    /\ idx < Len(workers)
    /\ ~Alive(idx + 1)
    /\ proc' = [proc EXCEPT ![idx + 1].reaped = TRUE]
    /\ IF proc[idx + 1].exit = "exit0"
       THEN /\ workers' = [workers EXCEPT ![idx + 1].write_fd = "closed",
                                          ![idx + 1].read_fd = "closed"]
            /\ idx' = idx + 1
            /\ UNCHANGED <<pc, result, region>>
       ELSE /\ Throw("WorkerFailure")
            /\ UNCHANGED <<workers, idx>>
    /\ UNCHANGED <<augmented, max_processes, cpu_available, shared_data,
                   process_budget, task_chan, ack_chan, col, assigned,
                   seq_result, history, faults>>

\* lines 479-483: waitpid fails with an errno other than EINTR
WaitpidFails ==
    /\ pc = "reap"
    /\ idx < Len(workers)
    /\ faults < MaxFaults
    /\ faults' = faults + 1
    /\ Throw("WorkerFailure")
    /\ UNCHANGED <<augmented, max_processes, cpu_available, shared_data,
                   process_budget, workers, proc, task_chan, ack_chan, col,
                   assigned, idx, seq_result, history>>

ReapDone ==
    /\ pc = "reap"
    /\ idx >= Len(workers)
    /\ pc' = "backsub"
    /\ UNCHANGED <<augmented, max_processes, cpu_available, region,
                   shared_data, process_budget, workers, proc, task_chan,
                   ack_chan, col, assigned, idx, result, seq_result,
                   history, faults>>

\* lines 491-506: back substitution on the shared region, then the return
\* (or the throw), which runs the guard's destructor
BackSubstitution ==
    /\ pc = "backsub"
    /\ result' = BackSubstitute(shared_data, augmented.cols, augmented.rows,
                                augmented.rows - 1, ZeroVector(augmented.rows))
    /\ pc' = "done"
    /\ region' = SharedMatrixGuard(region)
    /\ UNCHANGED <<augmented, max_processes, cpu_available, shared_data,
                   process_budget, workers, proc, task_chan, ack_chan, col,
                   assigned, idx, seq_result, history, faults>>

\* ------------------------------------------------------------------ workers
\* _exit(status) of worker k
WorkerExits(k, how) ==
    proc' = [proc EXCEPT ![k].exit = how, ![k].state = "Terminated"]

\* lines 249-258 and 260: the worker reads one WorkerTask
WorkerRead(k) ==
    /\ Alive(k)
    /\ proc[k].state = "Ready"
    /\ task_chan[k] # <<>>
    /\ LET task == Head(task_chan[k])
       IN  proc' = [proc EXCEPT
                       ![k].task = task,
                       ![k].row = task.start_row,
                       ![k].pivot = IF task.command = Work
                                       /\ task.start_row < task.end_row
                                    THEN At(shared_data, augmented.cols,
                                            task.column, task.column)
                                    ELSE @,
                       ![k].state = IF task.command = Exit THEN "Exiting"
                                    ELSE IF task.start_row < task.end_row
                                         THEN "Working" ELSE "Acking"]
    /\ task_chan' = [task_chan EXCEPT ![k] = Tail(@)]
    /\ UNCHANGED <<augmented, max_processes, cpu_available, pc, region,
                   shared_data, process_budget, workers, ack_chan, col,
                   assigned, idx, result, seq_result, history, faults>>

\* lines 250-252: the read returns end of file, _exit(1)
WorkerReadFails(k) ==
    /\ Alive(k)
    /\ proc[k].state = "Ready"
    /\ task_chan[k] = <<>>
    /\ TaskWriters(k) = {}
    /\ WorkerExits(k, "exit1")
    /\ UNCHANGED <<augmented, max_processes, cpu_available, pc, region,
                   shared_data, process_budget, workers, task_chan, ack_chan,
                   col, assigned, idx, result, seq_result, history, faults>>

\* lines 263-269: the elimination of one row of the task's range
WorkerReduce(k) ==
    /\ Alive(k)
    /\ proc[k].state = "Working"
    /\ shared_data' = ReduceRow(shared_data, augmented.cols,
                                proc[k].task.column, proc[k].row,
                                proc[k].pivot)
    /\ proc' = [proc EXCEPT
                   ![k].row = @ + 1,
                   ![k].state = IF proc[k].row + 1 < proc[k].task.end_row
                                THEN "Working" ELSE "Acking"]
    /\ history' = [history EXCEPT
                      !.reduced[proc[k].row + 1] = Append(@, proc[k].task.column)]
    /\ UNCHANGED <<augmented, max_processes, cpu_available, pc, region,
                   process_budget, workers, task_chan, ack_chan, col,
                   assigned, idx, result, seq_result, faults>>

\* lines 272-275: the Ack of a Work task is written
WorkerAcks(k) ==
    /\ Alive(k)
    /\ proc[k].state = "Acking"
    /\ ack_chan' = [ack_chan EXCEPT ![k] = Append(@, WorkerAck(0))]
    /\ proc' = [proc EXCEPT ![k].state = "Ready", ![k].task = NoTask,
                            ![k].row = 0, ![k].pivot = Dbl(0)]
    /\ UNCHANGED <<augmented, max_processes, cpu_available, pc, region,
                   shared_data, process_budget, workers, task_chan, col,
                   assigned, idx, result, seq_result, history, faults>>

\* lines 273-275: the write of the Ack fails, _exit(1)
WorkerAckFails(k) ==
    /\ Alive(k)
    /\ proc[k].state = "Acking"
    /\ pc # "done"
    /\ faults < MaxFaults
    /\ faults' = faults + 1
    /\ WorkerExits(k, "exit1")
    /\ UNCHANGED <<augmented, max_processes, cpu_available, pc, region,
                   shared_data, process_budget, workers, task_chan, ack_chan,
                   col, assigned, idx, result, seq_result, history>>

\* lines 254-256: the Ack of an Exit task is written
WorkerExitAcks(k) ==
    /\ Alive(k)
    /\ proc[k].state = "Exiting"
    /\ ack_chan' = [ack_chan EXCEPT ![k] = Append(@, WorkerAck(0))]
    /\ proc' = [proc EXCEPT ![k].state = "Leaving"]
    /\ UNCHANGED <<augmented, max_processes, cpu_available, pc, region,
                   shared_data, process_budget, workers, task_chan, col,
                   assigned, idx, result, seq_result, history, faults>>

\* line 256: the write of the Ack fails; its result is not looked at
WorkerExitAckFails(k) ==
    /\ Alive(k)
    /\ proc[k].state = "Exiting"
    /\ pc # "done"
    /\ faults < MaxFaults
    /\ faults' = faults + 1
    /\ proc' = [proc EXCEPT ![k].state = "Leaving"]
    /\ UNCHANGED <<augmented, max_processes, cpu_available, pc, region,
                   shared_data, process_budget, workers, task_chan, ack_chan,
                   col, assigned, idx, result, seq_result, history>>

\* line 257: _exit(0)
WorkerLeaves(k) ==
    /\ Alive(k)
    /\ proc[k].state = "Leaving"
    /\ WorkerExits(k, "exit0")
    /\ UNCHANGED <<augmented, max_processes, cpu_available, pc, region,
                   shared_data, process_budget, workers, task_chan, ack_chan,
                   col, assigned, idx, result, seq_result, history, faults>>

\* the environment kills worker k while the call is in progress
WorkerKilled(k) ==
    /\ Alive(k)
    /\ pc # "done"
    /\ faults < MaxFaults
    /\ faults' = faults + 1
    /\ WorkerExits(k, "signaled")
    /\ UNCHANGED <<augmented, max_processes, cpu_available, pc, region,
                   shared_data, process_budget, workers, task_chan, ack_chan,
                   col, assigned, idx, result, seq_result, history>>

\* the process that called gaussian_parallel terminates (an exception that
\* nobody catches ends it at once); the kernel closes its descriptors
ProcessExits ==
    /\ pc = "done"
    /\ pc' = "exited"
    /\ workers' = [k \in Spawned |->
                      [workers[k] EXCEPT !.write_fd = "closed",
                                         !.read_fd = "closed"]]
    /\ UNCHANGED <<augmented, max_processes, cpu_available, region,
                   shared_data, process_budget, proc, task_chan, ack_chan,
                   col, assigned, idx, result, seq_result, history, faults>>

Next ==
    \/ CallSequential
    \/ Validate \/ Mmap \/ MmapFails
    \/ SpawnWorker \/ SpawnFails \/ SpawnDone
    \/ Pivot
    \/ DispatchSend \/ DispatchSendFails \/ DispatchDone
    \/ Collect \/ CollectFails \/ CollectDone
    \/ ExitSend \/ ExitSendFails \/ ExitSendDone
    \/ ExitWait \/ ExitWaitFails \/ ExitWaitDone
    \/ Reap \/ WaitpidFails \/ ReapDone
    \/ BackSubstitution
    \/ ProcessExits
    \/ \E k \in Spawned : WorkerRead(k)
    \/ \E k \in Spawned : WorkerReadFails(k)
    \/ \E k \in Spawned : WorkerReduce(k)
    \/ \E k \in Spawned : WorkerAcks(k)
    \/ \E k \in Spawned : WorkerAckFails(k)
    \/ \E k \in Spawned : WorkerExitAcks(k)
    \/ \E k \in Spawned : WorkerExitAckFails(k)
    \/ \E k \in Spawned : WorkerLeaves(k)
    \/ \E k \in Spawned : WorkerKilled(k)

Spec == Init /\ [][Next]_vars

\* ---------------------------------------------------------------- scheduling
\* the steps of the process that runs gaussian_parallel, its own failed
\* reads and writes included; the faults of the environment are not steps
\* it takes
OrchestratorStep ==
    \/ Validate \/ Mmap
    \/ SpawnWorker \/ SpawnDone
    \/ Pivot
    \/ DispatchSend \/ DispatchSendFails \/ DispatchDone
    \/ Collect \/ CollectFails \/ CollectDone
    \/ ExitSend \/ ExitSendFails \/ ExitSendDone
    \/ ExitWait \/ ExitWaitFails \/ ExitWaitDone
    \/ Reap \/ ReapDone
    \/ BackSubstitution

\* the steps of worker process k
WorkerStep(k) ==
    /\ k \in Spawned
    /\ \/ WorkerRead(k) \/ WorkerReadFails(k)
       \/ WorkerReduce(k)
       \/ WorkerAcks(k) \/ WorkerExitAcks(k)
       \/ WorkerLeaves(k)

\* a step of some process that is able to run
Scheduled == OrchestratorStep \/ \E k \in Spawned : WorkerStep(k)

\* the initial states, the processor count being drawn only for the calls
\* that use it: with max_processes > 0 line 361 takes max_processes
FairInit == Init /\ (max_processes > 0 => cpu_available = 1)

\* the kernel does not leave every runnable process waiting for ever
FairSpec == FairInit /\ [][Next]_vars /\ WF_vars(Scheduled)

\* ------------------------------------------------------------------ caller
\* constexpr double kTolerance = 1e-6, as its reciprocal
kToleranceInv == 1000000

\* delta > kTolerance, with delta = std::fabs(a - b)
DeltaAboveTolerance(a, b) ==
    Abs(Num(Sub(a, b))) * kToleranceInv > Den(Sub(a, b))

\* solve_gauss_1_svc: solutions_match of the background comparison
SolutionsMatch(parallel_solution, sequential_solution) ==
    /\ Len(parallel_solution) = Len(sequential_solution)
    /\ \A i \in 1..Len(parallel_solution) :
          ~DeltaAboveTolerance(parallel_solution[i], sequential_solution[i])

\* ----------------------------------------------------- one-worker reference
\* the forward elimination of gaussian_parallel run with a given budget and
\* the workers taking their tasks one after the other, in worker order
RECURSIVE TaskRun(_, _, _, _, _, _)
TaskRun(data, width, column, row, end_row, pivot) ==
    IF row >= end_row THEN data
    ELSE TaskRun(ReduceRow(data, width, column, row, pivot), width, column,
                 row + 1, end_row, pivot)

RECURSIVE RoundRun(_, _, _, _, _, _, _)
RoundRun(data, n, width, c, active, chunk, k) ==
    LET start == ChunkStart(c, k, chunk)
    IN  IF ~DispatchMore(k, active, start, n) THEN data
        ELSE RoundRun(TaskRun(data, width, c, start, ChunkEnd(n, start, chunk),
                              At(data, width, c, c)),
                      n, width, c, active, chunk, k + 1)

RECURSIVE ColumnsRun(_, _, _, _, _)
ColumnsRun(data, n, width, budget, c) ==
    IF c >= n THEN [status |-> "ok", data |-> data]
    ELSE IF PivotSingular(data, width, c)
         THEN [status |-> "SingularMatrix", data |-> data]
         ELSE IF RemainingRows(n, c) = 0
              THEN ColumnsRun(data, n, width, budget, c + 1)
              ELSE LET active == ActiveWorkers(budget, RemainingRows(n, c))
                       chunk  == Chunk(RemainingRows(n, c), active)
                   IN  ColumnsRun(RoundRun(data, n, width, c, active, chunk, 0),
                                  n, width, budget, c + 1)

\* gaussian_parallel(augmented, 1) for rows >= 2
SingleWorkerRun(a) ==
    LET fwd == ColumnsRun(a.data, a.rows, a.cols, ProcessBudget(1, 1, a.rows), 0)
    IN  [data |-> fwd.data,
         result |-> IF fwd.status # "ok"
                    THEN [status |-> fwd.status, solution |-> <<>>]
                    ELSE BackSubstitute(fwd.data, a.cols, a.rows, a.rows - 1,
                                        ZeroVector(a.rows))]

\* ------------------------------------------------------- the partition alone
\* the Work tasks of round c, in the order the dispatch loop writes them
RECURSIVE RoundTasks(_, _, _, _, _)
RoundTasks(n, c, active, chunk, k) ==
    LET start == ChunkStart(c, k, chunk)
    IN  IF ~DispatchMore(k, active, start, n) THEN <<>>
        ELSE <<[worker |-> k + 1,
                task |-> WorkerTask(Work, c, start, ChunkEnd(n, start, chunk))]>>
             \o RoundTasks(n, c, active, chunk, k + 1)

SentInRound(n, budget, c) ==
    IF c < 0 \/ RemainingRows(n, c) <= 0 THEN <<>>
    ELSE LET active == ActiveWorkers(budget, RemainingRows(n, c))
         IN  RoundTasks(n, c, active, Chunk(RemainingRows(n, c), active), 0)

\* an input that is upper triangular already: the rounds leave it unchanged
UpperTriangular(n) ==
    CppMatrix(n, n + 1,
              [i \in 1..(n * (n + 1)) |->
                  LET r == (i - 1) \div (n + 1)
                      c == (i - 1) % (n + 1)
                  IN  Dbl(IF r = c THEN 1 ELSE IF c = n THEN r + 1 ELSE 0)])

\* the orchestrator at the dispatch loop of round c of a run on
\* UpperTriangular(n) with max_processes = budget: rounds 0..c-1 are over,
\* every worker is back in its read
PartitionInit ==
    \E n \in 2..MaxPartN : \E budget \in 1..(n - 1) : \E c \in 0..(n - 2) :
        /\ augmented = UpperTriangular(n)
        /\ max_processes = budget
        /\ cpu_available = 1
        /\ pc = "dispatch"
        /\ region = [mapped |-> TRUE, mmaps |-> 1, munmaps |-> 0]
        /\ shared_data = augmented.data
        /\ process_budget = ProcessBudget(budget, 1, n)
        /\ workers = [k \in 1..budget |->
                         [pid |-> k, write_fd |-> "open", read_fd |-> "open"]]
        /\ proc = [k \in 1..budget |->
                      [state |-> "Ready", task |-> NoTask, row |-> 0,
                       pivot |-> Dbl(0), exit |-> "none", reaped |-> FALSE]]
        /\ task_chan = [k \in 1..budget |-> <<>>]
        /\ ack_chan = [k \in 1..budget |-> <<>>]
        /\ col = c
        /\ assigned = 0
        /\ idx = Len(SentInRound(n, budget, c - 1))
        /\ result = NoResult
        /\ seq_result = NoResult
        /\ history = [exit_sent |-> {}, work_cols |-> 0..(c - 1),
                      unacked |-> [k \in 1..budget |-> <<>>],
                      round |-> SentInRound(n, budget, c - 1),
                      exits |-> [k \in 1..budget |-> 0],
                      reduced |-> [r \in 1..n |->
                                     [d \in 1..Min(r - 1, c) |-> d - 1]]]
        /\ faults = 0

PartitionNext == DispatchSend \/ DispatchDone

PartitionSpec == PartitionInit /\ [][PartitionNext]_vars

\* ------------------------------------------------------------------ claims
Range(q) == {q[i] : i \in 1..Len(q)}

\* the Work tasks written to worker k whose Ack the orchestrator has not read
UnackedWork(k) == {t \in Range(history.unacked[k]) : t.command = Work}

AllUnackedWork == UNION {UnackedWork(k) : k \in Spawned}

\* worker k is executing a Work task
Executing(k) == Alive(k) /\ proc[k].state \in {"Working", "Acking"}

TaskRows(t) == t.start_row..(t.end_row - 1)

\* C1: the column barrier.  All Work tasks that are unacknowledged, and all
\* Work tasks that workers are executing, are tasks of one column, the
\* orchestrator's current column: no task of column c+1 exists while a task
\* of column c is unacknowledged.  Between two rounds (at the pivot read) no
\* Work task is unacknowledged at all.
C1_ColumnBarrier ==
    /\ \A s \in AllUnackedWork : \A t \in AllUnackedWork : s.column = t.column
    /\ \A k \in Spawned : Executing(k) =>
          /\ proc[k].task \in UnackedWork(k)
          /\ \A t \in AllUnackedWork : t.column = proc[k].task.column
    /\ \A k \in Spawned : \A i \in 1..Len(task_chan[k]) :
          task_chan[k][i].command = Work => task_chan[k][i] \in UnackedWork(k)
    /\ pc \in {"dispatch", "collect"} => \A t \in AllUnackedWork : t.column = col
    /\ pc = "pivot" => AllUnackedWork = {}

\* a second round is under way on two spawned workers
C1_Witness ==
    /\ Len(workers) >= 2
    /\ \E k \in Spawned : proc[k].state = "Working" /\ proc[k].task.column = 1

\* C2: race freedom.  The row ranges of the unacknowledged Work tasks of
\* different workers are disjoint, so no row has two writers; the pivot row
\* of an unacknowledged Work task lies in no such range, so it is not written
\* while it may be read; a worker writes only inside the range of its own
\* unacknowledged task; and the orchestrator touches the region (the copy at
\* allocation, the pivot read, back substitution) only when no Work task is
\* unacknowledged.
C2_RaceFree ==
    /\ \A j \in Spawned : \A k \in Spawned : j # k =>
          \A s \in UnackedWork(j) : \A t \in UnackedWork(k) :
              TaskRows(s) \cap TaskRows(t) = {}
    /\ \A k \in Spawned : Cardinality(UnackedWork(k)) <= 1
    /\ \A s \in AllUnackedWork : \A t \in AllUnackedWork :
          s.column \notin TaskRows(t)
    /\ \A k \in Spawned : (Alive(k) /\ proc[k].state = "Working") =>
          /\ proc[k].task \in UnackedWork(k)
          /\ proc[k].row \in TaskRows(proc[k].task)
    /\ pc \in {"mmap", "pivot", "backsub"} => AllUnackedWork = {}

\* two workers are inside their row loops at the same time
C2_Witness ==
    \E j \in Spawned : \E k \in Spawned :
        /\ j # k
        /\ Alive(j) /\ proc[j].state = "Working"
        /\ Alive(k) /\ proc[k].state = "Working"

\* C3: cleanup on every exit path.  When the call has returned or thrown
\* after spawning at least one worker, every spawned worker has been reaped
\* and both descriptors of every worker handle are closed.
C3_CleanupOnEveryExit ==
    (pc = "done" /\ workers # <<>>) =>
        \A k \in Spawned :
            /\ proc[k].reaped
            /\ workers[k].write_fd = "closed"
            /\ workers[k].read_fd = "closed"

\* C4: Exit before the error.  When the call has failed with SingularMatrix
\* or WorkerFailure after spawning workers, every worker that is still
\* running has been sent an Exit task.
C4_ExitSentBeforeError ==
    (pc = "done" /\ result.status \in {"SingularMatrix", "WorkerFailure"}) =>
        \A k \in Spawned : Alive(k) => k \in history.exit_sent

\* C5: the region is released exactly once.  The orchestrator maps at most
\* one region per call; the region stays mapped from its allocation to the
\* end of the call; and once the call has ended, by return or by exception,
\* every region that was mapped has been unmapped, exactly once.
C5_RegionReleasedOnce ==
    /\ region.mmaps <= 1
    /\ region.munmaps <= region.mmaps
    /\ region.mapped <=> (region.mmaps = 1 /\ region.munmaps = 0)
    /\ pc \in {"spawn", "pivot", "dispatch", "collect", "exit_send",
               "exit_wait", "reap", "backsub"} => region.mapped
    /\ pc \in {"done", "exited"} =>
          /\ ~region.mapped
          /\ region.munmaps = region.mmaps

\* the call ended with an exception while workers existed, region unmapped
C5_Witness ==
    /\ pc = "done"
    /\ result.status \in {"SingularMatrix", "WorkerFailure"}
    /\ workers # <<>>
    /\ region.munmaps = 1

Ended == pc \in {"done", "exited"}

Malformed == augmented.rows = 0 \/ augmented.cols # augmented.rows + 1

\* the input takes the parallel path: well-formed, two rows or more
ParallelPath == ~Malformed /\ augmented.rows >= 2

EnvironmentFailure == result.status \in {"WorkerFailure", "ResourceFailure"}

\* C6: the two engines agree.  When the sequential engine returned a solution
\* for the input (every pivot at least epsilon) and the parallel call ended
\* without a worker or resource failure, the parallel call returned a
\* solution too, equal element by element to the sequential one and so
\* within the caller's tolerance of 1e-6, whatever the budget.
C6_ParallelAgreesWithSequential ==
    (Ended /\ seq_result.status = "ok" /\ ~EnvironmentFailure) =>
        /\ result.status = "ok"
        /\ result.solution = seq_result.solution
        /\ SolutionsMatch(result.solution, seq_result.solution)

\* both engines solved a system of three rows, two workers having been used
C6_Witness ==
    /\ Ended
    /\ augmented.rows >= 3
    /\ Len(workers) >= 2
    /\ result.status = "ok"
    /\ seq_result.status = "ok"
    /\ \E i \in 1..Len(result.solution) : Den(result.solution[i]) > 1

\* C7: the partition does not matter.  Under every interleaving and with
\* every budget, the matrix the orchestrator back-substitutes from and the
\* result it returns are those of the run with max_workers = 1.
C7_PartitionIndependent ==
    ParallelPath =>
        /\ pc = "backsub" => shared_data = SingleWorkerRun(augmented).data
        /\ (Ended /\ ~EnvironmentFailure) =>
              result = SingleWorkerRun(augmented).result

\* a run with the largest budget, rows - 1 >= 2, returned a solution
C7_Witness ==
    /\ Ended
    /\ result.status = "ok"
    /\ augmented.rows >= 3
    /\ process_budget = augmented.rows - 1
    /\ Len(workers) = process_budget

\* C8: malformed shapes.  For a matrix with no rows or with cols # rows + 1
\* both engines fail with InvalidShape, and the parallel engine maps no
\* region and spawns no worker (so creates no channel) on the way.
C8_InvalidShapeFailsFast ==
    Malformed =>
        /\ seq_result.status \in {"none", "InvalidShape"}
        /\ result.status \in {"none", "InvalidShape"}
        /\ Ended => result.status = "InvalidShape"
        /\ pc \in {"validate", "done", "exited"}
        /\ region.mmaps = 0
        /\ workers = <<>> /\ task_chan = <<>> /\ ack_chan = <<>>

\* both engines have rejected the matrix with no rows and one column
C8_Witness ==
    /\ augmented.rows = 0
    /\ augmented.cols = 1
    /\ pc = "done"
    /\ result.status = "InvalidShape"
    /\ seq_result.status = "InvalidShape"

Diagonal(c) == At(shared_data, augmented.cols, c, c)

\* C9: the pivot is checked before the column's tasks.  No Work task that
\* was ever sent, is unacknowledged or is being executed has a pivot below
\* epsilon; once the column loop is over every pivot, the last column's
\* included, is at least epsilon; and a SingularMatrix failure of the
\* parallel path carries no solution, stands at a column whose pivot is
\* below epsilon, and no Work task of that column was sent.
C9_PivotCheckedFirst ==
    ParallelPath =>
        /\ \A c \in history.work_cols : ~FabsBelowEpsilon(Diagonal(c))
        /\ \A t \in AllUnackedWork : ~FabsBelowEpsilon(Diagonal(t.column))
        /\ \A k \in Spawned : Executing(k) =>
              ~FabsBelowEpsilon(Diagonal(proc[k].task.column))
        /\ (pc \in {"exit_send", "exit_wait", "reap", "backsub"}
            \/ result.status = "ok") =>
              \A c \in 0..(augmented.rows - 1) : ~FabsBelowEpsilon(Diagonal(c))
        /\ result.status = "SingularMatrix" =>
              /\ result.solution = <<>>
              /\ FabsBelowEpsilon(Diagonal(col))
              /\ col \notin history.work_cols

\* the last column's pivot was found singular after earlier rounds of work
C9_Witness ==
    /\ augmented.rows >= 2
    /\ result.status = "SingularMatrix"
    /\ col = augmented.rows - 1
    /\ history.work_cols # {}

SpawnLoopOver ==
    \/ pc \in {"pivot", "dispatch", "collect", "exit_send", "exit_wait",
               "reap", "backsub"}
    \/ Ended /\ ParallelPath
             /\ result.status \in {"ok", "SingularMatrix", "WorkerFailure"}

\* C10 as claimed: budget = min(B, rows - 1) with B = max_workers if
\* positive and the reported processor count otherwise.
C10_BudgetAsClaimed ==
    SpawnLoopOver =>
        LET B == IF max_processes > 0 THEN max_processes ELSE cpu_available
        IN  /\ process_budget = Min(B, augmented.rows - 1)
            /\ Len(workers) = process_budget
            /\ 1 <= process_budget /\ process_budget <= augmented.rows - 1

\* C10, amended: budget = min(B, rows - 1) with B = max_workers if positive,
\* else the reported processor count if that is positive, else 1; exactly
\* budget workers are spawned and 1 <= budget <= rows - 1.
C10_Budget ==
    SpawnLoopOver =>
        LET B == IF max_processes > 0 THEN max_processes
                 ELSE IF cpu_available > 0 THEN cpu_available ELSE 1
        IN  /\ process_budget = Min(B, augmented.rows - 1)
            /\ Len(workers) = process_budget
            /\ 1 <= process_budget /\ process_budget <= augmented.rows - 1

\* no max_workers given and a processor count of 0 or less: one worker
C10_Witness ==
    /\ SpawnLoopOver
    /\ max_processes = 0
    /\ cpu_available <= 0
    /\ augmented.rows >= 3
    /\ Len(workers) = 1


\* C11: one row.  For a well-formed input with a single row the parallel
\* engine maps no region, spawns no worker, opens no pipe and sends no task,
\* and what it returns or throws is what the sequential engine returns or
\* throws for that input, for every max_processes; [[5, 10]] yields [2.0].
C11_SingleRowDelegates ==
    (~Malformed /\ augmented.rows = 1) =>
        /\ pc \in {"validate", "done", "exited"}
        /\ region.mmaps = 0
        /\ workers = <<>> /\ proc = <<>>
        /\ task_chan = <<>> /\ ack_chan = <<>>
        /\ history.work_cols = {} /\ history.exit_sent = {}
        /\ (Ended /\ seq_result.status # "none") => result = seq_result
        /\ (Ended /\ augmented.data = <<Dbl(5), Dbl(10)>>) =>
              result = [status |-> "ok", solution |-> <<Dbl(2)>>]

\* [[5, 10]] was solved by both engines, the largest max_processes given
C11_Witness ==
    /\ Ended
    /\ augmented.rows = 1
    /\ augmented.data = <<Dbl(5), Dbl(10)>>
    /\ max_processes = MaxProcesses
    /\ result.solution = <<Dbl(2)>>
    /\ seq_result.status = "ok"


\* the smallest q with q * active >= remaining
CeilDiv(remaining, active) ==
    CHOOSE q \in 1..remaining :
        q * active >= remaining /\ (q - 1) * active < remaining

\* C12: the row partition of a round.  While round c is dispatched and
\* collected, the Work tasks sent in it went to workers 0, 1, ... in order,
\* each with a non-empty range of at most ceil(remaining / active) rows
\* that starts where the previous one ends, the first at row c + 1; once
\* the dispatch loop is over there are between 1 and active of them and the
\* ranges are pairwise disjoint with union exactly [c + 1, n).
C12_RowPartition ==
    pc \in {"dispatch", "collect"} =>
        LET R         == history.round
            n         == augmented.rows
            remaining == n - col - 1
            active    == Min(process_budget, remaining)
            sent      == IF R # <<>> /\ R[1].task.column = col THEN R ELSE <<>>
        IN  /\ remaining > 0
            /\ process_budget \in 1..(n - 1)
            /\ Len(sent) = assigned
            /\ \A i \in 1..Len(sent) :
                  /\ sent[i].worker = i
                  /\ sent[i].task.command = Work
                  /\ sent[i].task.column = col
                  /\ sent[i].task.start_row < sent[i].task.end_row
                  /\ sent[i].task.end_row - sent[i].task.start_row
                        <= CeilDiv(remaining, active)
                  /\ sent[i].task.start_row =
                        IF i = 1 THEN col + 1 ELSE sent[i - 1].task.end_row
            /\ pc = "collect" =>
                  /\ 1 <= Len(sent) /\ Len(sent) <= active
                  /\ \A i \in 1..Len(sent) : \A j \in 1..Len(sent) :
                        i # j => TaskRows(sent[i].task) \cap TaskRows(sent[j].task) = {}
                  /\ UNION {TaskRows(sent[i].task) : i \in 1..Len(sent)}
                        = (col + 1)..(n - 1)

\* a round whose dispatch loop stopped before active workers had a task
C12_Witness ==
    /\ pc = "collect"
    /\ col > 0
    /\ assigned < RoundActive
    /\ assigned >= 2


\* the call returned a solution computed by the worker processes
Success == Ended /\ ParallelPath /\ result.status = "ok"

\* C13: the ordered shutdown of the success path.  An Exit task is sent
\* only when every Work task of every column has been acknowledged; the
\* Exit loop sends one Exit to each spawned worker in turn, whether or not
\* it had work in the last rounds; the Acks are collected only when every
\* worker has its one Exit; a worker is reaped only when every Ack has been
\* received; the orchestrator closes a worker's descriptors only when that
\* worker has terminated and been reaped; back substitution runs, and a
\* solution is returned, only when every worker has terminated.
C13_OrderedShutdown ==
    /\ \A k \in Spawned :
          /\ history.exits[k] <= 1
          /\ history.exits[k] = 1 =>
                /\ col = augmented.rows
                /\ history.work_cols = 0..(augmented.rows - 2)
                /\ \A j \in Spawned : UnackedWork(j) = {}
                /\ Len(workers) = process_budget
          /\ (pc # "exited" /\ "closed" \in {workers[k].write_fd, workers[k].read_fd}) =>
                /\ proc[k].state = "Terminated"
                /\ proc[k].reaped
                /\ pc \in {"reap", "backsub", "done"}
          /\ proc[k].reaped =>
                /\ ~Alive(k)
                /\ \A j \in Spawned : history.exits[j] = 1 /\ history.unacked[j] = <<>>
    /\ pc = "exit_send" =>
          \A k \in Spawned : history.exits[k] = (IF k <= idx THEN 1 ELSE 0)
    /\ pc = "exit_wait" =>
          \A k \in Spawned :
              /\ history.exits[k] = 1
              /\ k <= idx => history.unacked[k] = <<>>
              /\ k > idx => history.unacked[k] = <<WorkerTask(Exit, 0, 0, 0)>>
    /\ pc = "reap" =>
          \A k \in Spawned :
              /\ k <= idx => proc[k].reaped /\ workers[k].write_fd = "closed"
                                            /\ workers[k].read_fd = "closed"
              /\ k > idx => workers[k].write_fd = "open" /\ workers[k].read_fd = "open"
    /\ (pc = "backsub" \/ Success) =>
          /\ Len(workers) = process_budget
          /\ \A k \in Spawned :
                /\ history.exits[k] = 1
                /\ history.unacked[k] = <<>>
                /\ proc[k].state = "Terminated" /\ proc[k].exit = "exit0"
                /\ proc[k].reaped
                /\ workers[k].write_fd = "closed" /\ workers[k].read_fd = "closed"

\* back substitution about to start after two workers were shut down, the
\* second of which had no Work task in the last round
C13_Witness ==
    /\ pc = "backsub"
    /\ Len(workers) = 2
    /\ augmented.rows = 3
    /\ \A k \in Spawned : proc[k].state = "Terminated" /\ history.exits[k] = 1


\* the cells of the region that a step writes
Written == {i \in 1..Len(shared_data) : shared_data'[i] # shared_data[i]}

\* C14: the frame of a worker's Work task.  Once the matrix has been copied
\* into the region, a step that changes the region is a step of one worker
\* that is in Working on a Work task still unacknowledged, and it changes
\* only cells of rows [start_row, end_row) and columns [column, width).  A
\* step that puts an Ack on worker k's ack channel puts exactly one Ack,
\* with status 0, on an empty channel, for the one task worker k owes; when
\* that task is a Work task the worker has gone through all its rows, it
\* is back in Ready after the step, and the step leaves the region alone.
C14_WorkerFrame ==
    [][ /\ (pc # "mmap" /\ shared_data' # shared_data) =>
              \E k \in Spawned :
                 /\ proc'[k] # proc[k]
                 /\ \A j \in Spawned \ {k} : proc'[j] = proc[j]
                 /\ proc[k].state = "Working"
                 /\ proc[k].task.command = Work
                 /\ proc[k].task \in UnackedWork(k)
                 /\ proc[k].row \in TaskRows(proc[k].task)
                 /\ \A i \in Written :
                       /\ (i - 1) \div augmented.cols \in TaskRows(proc[k].task)
                       /\ (i - 1) % augmented.cols >= proc[k].task.column
                       /\ (i - 1) % augmented.cols < augmented.cols
        /\ \A k \in Spawned :
              (Len(ack_chan'[k]) > Len(ack_chan[k])) =>
                 /\ ack_chan[k] = <<>>
                 /\ ack_chan'[k] = <<WorkerAck(0)>>
                 /\ history.unacked[k] = <<proc[k].task>>
                 /\ shared_data' = shared_data
                 /\ proc[k].task.command = Work =>
                       /\ proc[k].row = proc[k].task.end_row
                       /\ proc'[k].state = "Ready"
                       /\ proc'[k].task = NoTask
        /\ \A k \in Spawned :
              (proc[k].state = "Ready" /\ proc'[k].state = "Working") =>
                 /\ Head(task_chan[k]) = proc'[k].task
                 /\ proc'[k].task.command = Work
                 /\ proc'[k].row = proc'[k].task.start_row
                 /\ shared_data' = shared_data
      ]_vars

\* a worker about to acknowledge a Work task of two rows that it has
\* eliminated in the region
C14_Witness ==
    \E k \in Spawned :
        /\ proc[k].state = "Acking"
        /\ proc[k].task.command = Work
        /\ proc[k].task.end_row - proc[k].task.start_row = 2
        /\ proc[k].row = proc[k].task.end_row
        /\ shared_data # augmented.data


\* worker k has a task whose Ack it has not put on its ack channel
OwesAck(k) == Len(ack_chan[k]) < Len(history.unacked[k])

\* C15: a failed Ack write is fatal to the worker.  A worker that has
\* terminated with an Ack still owed, for a Work task or for an Exit task,
\* has not exited with status 0.
C15_AckWriteFailureIsFatal ==
    \A k \in Spawned :
        (proc[k].state = "Terminated" /\ OwesAck(k)) => proc[k].exit # "exit0"


\* worker k has terminated with an Ack still owed
DiedOwing(k) == k \in Spawned /\ proc[k].state = "Terminated" /\ OwesAck(k)

\* C16: a worker that dies owing an Ack fails the call.  When the
\* orchestrator waits for the Ack of such a worker its read fails, as no
\* process holds the write end of that ack pipe any more; the call never
\* returns a solution; and under fair scheduling it ends, with WorkerFailure.
C16_DeadWorkerFailsCall ==
    /\ [](\A k \in Spawned :
             DiedOwing(k) =>
                /\ result.status \in {"none", "WorkerFailure"}
                /\ (pc \in {"collect", "exit_wait"} /\ idx + 1 = k) =>
                       WaitAckFails(k))
    /\ (\E k \in Spawned : DiedOwing(k))
           ~> (Ended /\ result.status = "WorkerFailure")

\* the call failed with WorkerFailure after a worker was killed with an Ack
\* owed while another worker was alive
C16_Witness ==
    /\ pc = "done"
    /\ result.status = "WorkerFailure"
    /\ \E k \in Spawned : \E j \in Spawned :
          /\ DiedOwing(k) /\ proc[k].exit = "signaled"
          /\ j > k /\ Alive(j)


\* C17: private channel pairs.  Once the spawn loop is over, the write end
\* of worker k's task pipe is held by the orchestrator (process 0) at most,
\* its read end by worker k at most, the write end of its ack pipe by
\* worker k at most and its read end by the orchestrator at most; and a
\* live worker whose task pipe the orchestrator has closed has no writer
\* left on that pipe.
C17_ChannelsPrivate ==
    (SpawnLoopOver \/ (pc = "exited" /\ workers # <<>>)) =>
        \A k \in Spawned :
            /\ TaskWriters(k) \subseteq {0}
            /\ TaskReaders(k) \subseteq {k}
            /\ AckWriters(k) \subseteq {k}
            /\ AckReaders(k) \subseteq {0}
            /\ (Alive(k) /\ workers[k].write_fd = "closed") => TaskWriters(k) = {}


\* C18: the region outlives the workers.  A worker exists only once the
\* region has been mapped, and the orchestrator has unmapped the region
\* only when every spawned worker process has exited.
C18_RegionOutlivesWorkers ==
    /\ workers # <<>> => region.mmaps = 1
    /\ region.munmaps > 0 => \A k \in Spawned : ~Alive(k)


\* worker k has read a task and not yet dealt with its Ack
Holding(k) == Alive(k) /\ proc[k].state \in {"Working", "Acking", "Exiting"}

\* C19: one outstanding task per worker.  In every state each worker has at
\* most one task sent and not acknowledged; that task is unread in the task
\* pipe, or in the worker's hands, or its Ack is unread in the ack pipe (or
\* it was lost with the worker), so neither pipe ever holds two messages;
\* the orchestrator waits for an Ack only of a worker with such a task.  In
\* every step a task leaves worker k's task pipe only by worker k, in
\* Ready, taking the head of the pipe as its task.
C19_OneOutstandingTask ==
    /\ [](\A k \in Spawned :
             /\ Len(history.unacked[k]) <= 1
             /\ Len(task_chan[k]) + (IF Holding(k) THEN 1 ELSE 0) + Len(ack_chan[k])
                   <= Len(history.unacked[k])
             /\ task_chan[k] # <<>> => task_chan[k] = history.unacked[k]
             /\ Holding(k) => history.unacked[k] = <<proc[k].task>>
             /\ TaskReaders(k) \subseteq {k}
             /\ (pc = "collect" /\ ~RoundComplete(idx, assigned) /\ idx + 1 = k) =>
                    /\ Len(history.unacked[k]) = 1
                    /\ history.unacked[k][1].command = Work
             /\ (pc = "exit_wait" /\ idx < Len(workers) /\ idx + 1 = k) =>
                    history.unacked[k] = <<WorkerTask(Exit, 0, 0, 0)>>)
    /\ [][\A k \in Spawned :
             task_chan'[k] # task_chan[k] =>
                \/ /\ task_chan[k] = <<>>
                   /\ Len(task_chan'[k]) = 1
                   /\ proc' = proc
                \/ /\ task_chan'[k] = <<>>
                   /\ Alive(k) /\ proc[k].state = "Ready"
                   /\ proc'[k].task = Head(task_chan[k])
                   /\ \A j \in Spawned \ {k} : proc'[j] = proc[j]
                   /\ history' = history
      ]_vars

\* the orchestrator waits for the Ack of a worker whose task of the second
\* round is still unread in its task pipe
C19_Witness ==
    /\ pc = "collect"
    /\ col >= 1
    /\ ~RoundComplete(idx, assigned)
    /\ Len(task_chan[idx + 1]) = 1
    /\ Alive(idx + 1)


\* every pivot the column loop reads is at least kEpsilon in magnitude
PivotsAboveEpsilon ==
    ColumnsRun(augmented.data, augmented.rows, augmented.cols, 1, 0).status = "ok"

\* the orchestrator is blocked in the read of an Ack
AwaitingAck ==
    /\ \/ pc = "collect" /\ ~RoundComplete(idx, assigned)
       \/ pc = "exit_wait" /\ idx < Len(workers)
    /\ ack_chan[idx + 1] = <<>>
    /\ AckWriters(idx + 1) # {}

\* worker k is blocked in the read of a task
AwaitingTask(k) ==
    Alive(k) /\ proc[k].state = "Ready" /\ task_chan[k] = <<>> /\ TaskWriters(k) # {}

\* C20: termination without failures.  For a well-formed input of two rows
\* or more, under fair scheduling the call ends unless the environment
\* makes an operation or a process fail; when it has ended with no failure
\* and every pivot was at least epsilon, it returned a solution of rows
\* elements and every spawned worker is in Terminated.  In no state is the
\* orchestrator blocked on an Ack while every worker is blocked on a task.
C20_EventuallySolves ==
    /\ [](AwaitingAck => \E k \in Spawned : ~AwaitingTask(k))
    /\ []((Ended /\ ParallelPath /\ faults = 0 /\ PivotsAboveEpsilon) =>
             /\ result.status = "ok"
             /\ Len(result.solution) = augmented.rows
             /\ Len(workers) = process_budget
             /\ \A k \in Spawned : proc[k].state = "Terminated")
    /\ (pc = "validate" /\ ParallelPath) ~> (Ended \/ faults > 0)

\* a run without any failure returned a solution computed by three workers
C20_Witness ==
    /\ Success
    /\ faults = 0
    /\ Len(workers) = MaxN - 1
    /\ max_processes = MaxProcesses
    /\ \A k \in Spawned : proc[k].state = "Terminated"


\* row r of a row-major matrix
RowOf(data, width, r) == SubSeq(data, r * width + 1, (r + 1) * width)

\* the columns 0 .. m - 1, in order
FirstColumns(m) == [d \in 1..m |-> d - 1]

\* C21: each row is reduced once per column, in order.  With the columns
\* for which row r was reduced recorded in the order of the reductions:
\* the record of row r is 0, 1, ..., m - 1 for some m <= r, so no column
\* twice, none out of order and none at or after r; it holds no column
\* after the current one; it holds every column of a finished round below
\* which the row lies; and the rows up to the pivot row, when the dispatch
\* of a round begins, and all rows when back substitution starts, are
\* those the complete elimination leaves there.
C21_RowReducedOncePerColumn ==
    (ParallelPath /\ shared_data # <<>>) =>
        LET final == ColumnsRun(augmented.data, augmented.rows,
                                augmented.cols, 1, 0).data
        IN
        /\ Len(history.reduced) = augmented.rows
        /\ \A r \in 0..(augmented.rows - 1) :
              LET done == history.reduced[r + 1]
              IN  /\ Len(done) <= r
                  /\ done = FirstColumns(Len(done))
                  /\ Len(done) <= col + 1
                  /\ \A d \in Range(done) : d \in history.work_cols
                  /\ pc \in {"pivot", "dispatch", "collect", "exit_send",
                             "exit_wait", "reap", "backsub"} =>
                        Len(done) >= Min(r, col)
                  /\ (\/ pc = "dispatch" /\ assigned = 0 /\ r <= col
                      \/ pc = "backsub") =>
                        RowOf(shared_data, augmented.cols, r) =
                        RowOf(final, augmented.cols, r)

\* the second round of a three-row run with two workers has reduced the
\* last row a second time and the Ack is awaited
C21_Witness ==
    /\ pc = "collect"
    /\ col = 1
    /\ Len(workers) = 2
    /\ history.reduced = <<<<>>, <<0>>, <<0, 1>>>>
    /\ shared_data # augmented.data

====
